---------------------------- MODULE Spec2Model ----------------------------
(***************************************************************************)
(* Model of the appointment-service data layer:                            *)
(*   - the Alembic revision 11a79f2c969c (upgrade / downgrade) run against *)
(*     a PostgreSQL catalog, statement by statement;                       *)
(*   - the rows of the appointments table under the constraints the        *)
(*     revision declares;                                                  *)
(*   - the session provider of app/data/models/base.py (engine,            *)
(*     get_session) over a connection pool.                                *)
(***************************************************************************)
EXTENDS Integers, Sequences, FiniteSets, TLC

\* ------------------------------------------------------------- bounds
MaxRows == 2
NumCallers == 2
MaxConns == 2

\* The migration runners: one in a deployment, two when runs race.
Runners == {1, 2}

\* ----------------------------------------------------- schema constants
\* The four labels of the enum (upgrade, lines 32-37 and line 56).
AppointmentStatus == {"SCHEDULED", "COMPLETED", "CANCELLED", "PENDING"}

\* server_default of the status column (line 56).
server_default == "SCHEDULED"

\* The indexes of lines 64-67, in creation order.
IndexNames ==
    <<"ix_appointments_appointment_id", "ix_appointments_doctor_id",
      "ix_appointments_facility_id", "ix_appointments_patient_id">>

AllIndexes == {IndexNames[i] : i \in 1..Len(IndexNames)}

\* unique=True / unique=False of lines 64-67.
IndexUnique(ix) == ix = "ix_appointments_appointment_id"

\* The column an index is on (lines 64-67).
IndexColumn(ix) ==
    CASE ix = "ix_appointments_appointment_id" -> "appointment_id"
      [] ix = "ix_appointments_doctor_id" -> "doctor_id"
      [] ix = "ix_appointments_facility_id" -> "facility_id"
      [] ix = "ix_appointments_patient_id" -> "patient_id"

\* sa.UniqueConstraint('appointment_id') of the table (line 60).
UniqueConstraint == {"appointment_id"}

\* Label sets a type named appointmentstatus can have before the revision
\* runs: the revision's own labels (left by an earlier partial run), a
\* superset of them, or an unrelated set.
ForeignLabelSets ==
    {AppointmentStatus, AppointmentStatus \cup {"NO_SHOW"}, {"ACTIVE", "INACTIVE"}}

\* Values a client may send for the columns the model keeps.
AppointmentIds == {"A1", "A2"}
Omitted == "<omitted>"
StatusInputs == {"SCHEDULED", "COMPLETED", "NO_SHOW", Omitted}

VARIABLES
    \* --- PostgreSQL catalog and data
    typeExists,     \* pg_type has a row with typname = 'appointmentstatus'
    typeLabels,     \* its labels ({} while absent)
    typeCreator,    \* the runner whose CREATE TYPE made it (0: none of them)
    otherTable,     \* another table has a column of that type
    tableExists,    \* the appointments table
    indexes,        \* the existing indexes among AllIndexes
    rows,           \* the rows of appointments
    nextId,         \* the serial of the id column
    dml,            \* the outcome of the last INSERT / UPDATE
    \* --- migration runs
    op,             \* per runner: "none" | "upgrade" | "downgrade"
    ip,             \* per runner: index of the next statement (0: not running)
    result,         \* per runner: the scalar of the SELECT EXISTS query
    checkfirst,     \* per runner: what ENUM.create's own lookup found
    err,            \* per runner: the error that ended its last run
    pre,            \* per runner: the schema when its run started
    log,            \* the last two finished runs, in order
    \* --- session provider
    gen,            \* per caller: state of the get_session() generator
    sess,           \* per caller: "none" | "open" | "closed"
    exit,           \* per caller: how the unit of work ended
    sessConn,       \* per caller: the connection its session holds (0: none)
    conn,           \* per connection: "absent" | "fresh" | "stale"
    pinged,         \* per caller, while it holds a connection: a health
                    \*   check preceded the hand-out
    handout,        \* per caller: "none" | "new" | "pooled_fresh" | "pooled_stale":
                    \*   where its connection came from, and its state there
    handedStale     \* per caller: the connection was stale when handed out

dbvars == <<typeExists, typeLabels, typeCreator, otherTable, tableExists,
            indexes, rows, nextId, dml>>
runvars == <<op, ip, result, checkfirst, err, pre, log>>
svars == <<gen, sess, exit, sessConn, conn, pinged, handout, handedStale>>
vars == <<dbvars, runvars, svars>>

\* ------------------------------------------------------------ helpers
\* The schema as a run sees it when it starts and when it ends.
Snapshot(t, tb, ixs, o, rs) ==
    [type |-> t, table |-> tb, ix |-> ixs, other |-> o, hasRows |-> rs # {}]

\* The statements of upgrade() in program order (lines 24-67).
upgrade_body ==
    <<"select_exists", "enum_checkfirst", "enum_create_type", "create_table",
      "create_index_1", "create_index_2", "create_index_3", "create_index_4">>

\* Faulty variant: downgrade() without its drop_table.
downgrade_body_keeps_table ==
    <<"drop_index_4", "drop_index_3", "drop_index_2", "drop_index_1",
      "drop_type_try">>

\* Faulty variant: downgrade() without its DROP TYPE.
downgrade_body_keeps_type ==
    <<"drop_index_4", "drop_index_3", "drop_index_2", "drop_index_1",
      "drop_table">>

\* Faulty variant: downgrade() dropping the table before the indexes.
downgrade_body_table_first ==
    <<"drop_table", "drop_index_4", "drop_index_3", "drop_index_2",
      "drop_index_1", "drop_type_try">>

\* The statements of downgrade() in program order (lines 71-85).
downgrade_body ==
    <<"drop_index_4", "drop_index_3", "drop_index_2", "drop_index_1",
      "drop_table", "drop_type_try">>

Body(o) == IF o = "upgrade" THEN upgrade_body ELSE downgrade_body

\* The statement runner r is about to execute.
Stmt(r) == IF ip[r] = 0 THEN "idle" ELSE Body(op[r])[ip[r]]

\* Faulty variant: the lookup names a type that is never there, so it finds nothing.
TypeExistsQueryWrongName(exists) == FALSE

\* SELECT EXISTS (SELECT 1 FROM pg_type WHERE typname = 'appointmentstatus')
\* (lines 24-28); ENUM.create's checkfirst lookup asks the same of the catalog.
TypeExistsQuery(exists) == exists

\* Faulty variant: neither the unique constraint nor unique=True is declared.
UniqueColumnsNone(ixs) == {}

\* Columns on which the store enforces uniqueness: the table's unique
\* constraint (line 60) and every existing unique index (line 64).
UniqueColumns(ixs) ==
    UniqueConstraint \cup {IndexColumn(ix) : ix \in {i \in ixs : IndexUnique(i)}}

\* The log with a finished run added: the last two runs are kept.
Logged(entry) == IF Len(log) < 2 THEN Append(log, entry) ELSE <<log[2], entry>>

\* After a statement that succeeded: go on to the next statement, or finish
\* the run.  Reads the primed schema, so it comes last in an action.
Continue(r) ==
    IF ip[r] < Len(Body(op[r]))
    THEN /\ ip' = [ip EXCEPT ![r] = @ + 1]
         /\ UNCHANGED <<err, log>>
    ELSE /\ ip' = [ip EXCEPT ![r] = 0]
         /\ err' = [err EXCEPT ![r] = "ok"]
         /\ log' = Logged([op |-> op[r], by |-> r, outcome |-> "ok",
                         at |-> "end", pre |-> pre[r],
                         post |-> Snapshot(typeExists', tableExists',
                                           indexes', otherTable', rows')])

\* A statement raised e: the run is aborted, the schema is as it was.
Abort(r, e) ==
    /\ ip' = [ip EXCEPT ![r] = 0]
    /\ err' = [err EXCEPT ![r] = e]
    /\ log' = Logged([op |-> op[r], by |-> r, outcome |-> e,
                    at |-> Stmt(r), pre |-> pre[r],
                    post |-> Snapshot(typeExists, tableExists, indexes,
                                      otherTable, rows)])
    /\ UNCHANGED dbvars

\* ------------------------------------------------------ migration runs
\* The deployment tool calls upgrade() or downgrade().
Start(r, o) ==
    /\ ip[r] = 0
    /\ op' = [op EXCEPT ![r] = o]
    /\ ip' = [ip EXCEPT ![r] = 1]
    /\ result' = [result EXCEPT ![r] = FALSE]
    /\ checkfirst' = [checkfirst EXCEPT ![r] = FALSE]
    /\ err' = [err EXCEPT ![r] = "none"]
    /\ pre' = [pre EXCEPT ![r] = Snapshot(typeExists, tableExists, indexes,
                                           otherTable, rows)]
    /\ UNCHANGED <<dbvars, log, svars>>

\* upgrade, lines 24-28: the existence check.
SelectExists(r) ==
    /\ Stmt(r) = "select_exists"
    /\ result' = [result EXCEPT ![r] = TypeExistsQuery(typeExists)]
    /\ UNCHANGED <<dbvars, op, checkfirst, pre, svars>>
    /\ Continue(r)

\* upgrade, lines 30 and 40: inside "if not result", ENUM.create(connection)
\* first looks the type up itself (checkfirst defaults to True).
EnumCheckfirst(r) ==
    /\ Stmt(r) = "enum_checkfirst"
    /\ checkfirst' = [checkfirst EXCEPT ![r] =
                         IF result[r] THEN @ ELSE TypeExistsQuery(typeExists)]
    /\ UNCHANGED <<dbvars, op, result, pre, svars>>
    /\ Continue(r)

\* Faulty variant: CREATE TYPE emitted whatever the lookups found.
EnumCreateTypeUnguarded(r) ==
    /\ Stmt(r) = "enum_create_type"
    /\ UNCHANGED <<op, result, checkfirst, pre, svars>>
    /\ IF typeExists
       THEN Abort(r, "DuplicateObject")
       ELSE /\ typeExists' = TRUE
            /\ typeLabels' = AppointmentStatus
            /\ typeCreator' = r
            /\ UNCHANGED <<otherTable, tableExists, indexes, rows, nextId, dml>>
            /\ Continue(r)

\* upgrade, lines 30-40: CREATE TYPE appointmentstatus AS ENUM (...), emitted
\* when neither lookup found the type.
EnumCreateType(r) ==
    /\ Stmt(r) = "enum_create_type"
    /\ UNCHANGED <<op, result, checkfirst, pre, svars>>
    /\ IF result[r] \/ checkfirst[r]
       THEN UNCHANGED dbvars /\ Continue(r)
       ELSE IF typeExists
            THEN Abort(r, "DuplicateObject")
            ELSE /\ typeExists' = TRUE
                 /\ typeLabels' = AppointmentStatus
                 /\ typeCreator' = r
                 /\ UNCHANGED <<otherTable, tableExists, indexes, rows, nextId, dml>>
                 /\ Continue(r)

\* upgrade, lines 43-61: CREATE TABLE appointments, its status column of the
\* type named appointmentstatus (create_type=False) with DEFAULT 'SCHEDULED'.
CreateTable(r) ==
    /\ Stmt(r) = "create_table"
    /\ UNCHANGED <<op, result, checkfirst, pre, svars>>
    /\ IF tableExists THEN Abort(r, "DuplicateTable")
       ELSE IF ~typeExists THEN Abort(r, "UndefinedObject")
       ELSE IF server_default \notin typeLabels
            THEN Abort(r, "InvalidTextRepresentation")
       ELSE /\ tableExists' = TRUE
            /\ rows' = {}
            /\ nextId' = 1
            /\ UNCHANGED <<typeExists, typeLabels, typeCreator, otherTable,
                           indexes, dml>>
            /\ Continue(r)

\* The index a create_index / drop_index statement names.
StmtIndex(stmt) ==
    CASE stmt \in {"create_index_1", "drop_index_1"} -> IndexNames[1]
      [] stmt \in {"create_index_2", "drop_index_2"} -> IndexNames[2]
      [] stmt \in {"create_index_3", "drop_index_3"} -> IndexNames[3]
      [] stmt \in {"create_index_4", "drop_index_4"} -> IndexNames[4]

\* upgrade, lines 64-67: CREATE [UNIQUE] INDEX ... ON appointments.
CreateIndex(r) ==
    /\ Stmt(r) \in {"create_index_1", "create_index_2",
                    "create_index_3", "create_index_4"}
    /\ UNCHANGED <<op, result, checkfirst, pre, svars>>
    /\ IF ~tableExists THEN Abort(r, "UndefinedTable")
       ELSE IF StmtIndex(Stmt(r)) \in indexes THEN Abort(r, "DuplicateTable")
       ELSE /\ indexes' = indexes \cup {StmtIndex(Stmt(r))}
            /\ UNCHANGED <<typeExists, typeLabels, typeCreator, otherTable,
                           tableExists, rows, nextId, dml>>
            /\ Continue(r)

\* downgrade, lines 71-74: DROP INDEX.
DropIndex(r) ==
    /\ Stmt(r) \in {"drop_index_1", "drop_index_2",
                    "drop_index_3", "drop_index_4"}
    /\ UNCHANGED <<op, result, checkfirst, pre, svars>>
    /\ IF StmtIndex(Stmt(r)) \notin indexes THEN Abort(r, "UndefinedObject")
       ELSE /\ indexes' = indexes \ {StmtIndex(Stmt(r))}
            /\ UNCHANGED <<typeExists, typeLabels, typeCreator, otherTable,
                           tableExists, rows, nextId, dml>>
            /\ Continue(r)

\* downgrade, line 77: DROP TABLE appointments; the store drops the table's
\* rows and whatever indexes it still has with it.
DropTable(r) ==
    /\ Stmt(r) = "drop_table"
    /\ UNCHANGED <<op, result, checkfirst, pre, svars>>
    /\ IF ~tableExists THEN Abort(r, "UndefinedTable")
       ELSE /\ tableExists' = FALSE
            /\ indexes' = {}
            /\ rows' = {}
            /\ UNCHANGED <<typeExists, typeLabels, typeCreator, otherTable,
                           nextId, dml>>
            /\ Continue(r)

\* DROP TYPE appointmentstatus (no CASCADE) succeeds when the type exists and
\* no column of any table is of that type.
CanDropType == typeExists /\ ~otherTable /\ ~tableExists

\* Faulty variant: DROP TYPE outside any try, its error ending the run.
DropTypeNoTry(r) ==
    /\ Stmt(r) = "drop_type_try"
    /\ UNCHANGED <<op, result, checkfirst, pre, svars>>
    /\ IF CanDropType
       THEN /\ typeExists' = FALSE
            /\ typeLabels' = {}
            /\ typeCreator' = 0
            /\ UNCHANGED <<otherTable, tableExists, indexes, rows, nextId, dml>>
            /\ Continue(r)
       ELSE Abort(r, "DependentObjectsStillExist")

\* downgrade, lines 80-85: try: DROP TYPE ... except Exception: pass.
DropTypeTry(r) ==
    /\ Stmt(r) = "drop_type_try"
    /\ UNCHANGED <<op, result, checkfirst, pre, svars>>
    /\ IF CanDropType
       THEN /\ typeExists' = FALSE
            /\ typeLabels' = {}
            /\ typeCreator' = 0
       ELSE UNCHANGED <<typeExists, typeLabels, typeCreator>>
    /\ UNCHANGED <<otherTable, tableExists, indexes, rows, nextId, dml>>
    /\ Continue(r)

\* One statement of a running upgrade() (lines 19-67).
upgrade(r) ==
    \/ SelectExists(r)
    \/ EnumCheckfirst(r)
    \/ EnumCreateType(r)
    \/ CreateTable(r)
    \/ CreateIndex(r)

\* One statement of a running downgrade() (lines 69-85).
downgrade(r) ==
    \/ DropIndex(r)
    \/ DropTable(r)
    \/ DropTypeTry(r)

\* ------------------------------------------------------- rows (clients)
\* The value stored for the status column: the server default when the
\* statement leaves the column out (line 56).
StoredStatus(st) == IF st = Omitted THEN server_default ELSE st

\* The store rejects a value that is no label of the column's type (line 56:
\* the column is of the type named appointmentstatus, whatever its labels).
EnumAccepts(st) == st \in typeLabels

\* A row other than `self` already has this appointment_id, on a column the
\* store keeps unique (lines 60 and 64).
UniqueViolation(aid, self) ==
    /\ "appointment_id" \in UniqueColumns(indexes)
    /\ \E row \in rows : row.id # self /\ row.appointment_id = aid

\* INSERT INTO appointments (appointment_id, ..., status) VALUES (...).
Insert(aid, st) ==
    /\ tableExists
    /\ nextId <= MaxRows
    /\ IF ~EnumAccepts(StoredStatus(st))
       THEN /\ dml' = "invalid_enum"
            /\ UNCHANGED <<rows, nextId>>
       ELSE IF UniqueViolation(aid, 0)
       THEN /\ dml' = "unique_violation"
            /\ nextId' = nextId + 1
            /\ UNCHANGED rows
       ELSE /\ dml' = "ok"
            /\ nextId' = nextId + 1
            /\ rows' = rows \cup {[id |-> nextId, appointment_id |-> aid,
                                   status |-> StoredStatus(st)]}
    /\ UNCHANGED <<typeExists, typeLabels, typeCreator, otherTable,
                   tableExists, indexes, runvars, svars>>

\* UPDATE appointments SET appointment_id = ..., status = ... WHERE id = ...
Update(id, aid, st) ==
    /\ tableExists
    /\ \E row \in rows : row.id = id
    /\ IF ~EnumAccepts(st)
       THEN /\ dml' = "invalid_enum"
            /\ UNCHANGED rows
       ELSE IF UniqueViolation(aid, id)
       THEN /\ dml' = "unique_violation"
            /\ UNCHANGED rows
       ELSE /\ dml' = "ok"
            /\ rows' = {IF row.id = id
                        THEN [row EXCEPT !.appointment_id = aid, !.status = st]
                        ELSE row : row \in rows}
    /\ UNCHANGED <<typeExists, typeLabels, typeCreator, otherTable,
                   tableExists, indexes, nextId, runvars, svars>>

\* Another table of the database takes, or gives up, a column of the type
\* (the "other tables ... using it" of lines 79-85).
CreateOtherTable ==
    /\ typeExists /\ ~otherTable
    /\ otherTable' = TRUE
    /\ UNCHANGED <<typeExists, typeLabels, typeCreator, tableExists, indexes,
                   rows, nextId, dml, runvars, svars>>

DropOtherTable ==
    /\ otherTable
    /\ otherTable' = FALSE
    /\ UNCHANGED <<typeExists, typeLabels, typeCreator, tableExists, indexes,
                   rows, nextId, dml, runvars, svars>>

\* ---------------------------------------------------- session provider
Callers == 1..NumCallers
Conns == 1..MaxConns

\* Faulty variant: the engine built with pool_pre_ping=True.
pool_pre_ping_on == TRUE

\* create_engine(DATABASE_URL, echo=True) (line 56): pool_pre_ping is not
\* passed, so it has create_engine's default.
pool_pre_ping == FALSE

\* The connections idle in the engine's pool.
Pooled == {k \in Conns : conn[k] # "absent" /\ \A c \in Callers : sessConn[c] # k}

\* Faulty variant: the session yielded outside any with block, never closed.
with_exit_leak(state) == state

\* Leaving the "with Session(engine) as session" block (lines 64-65):
\* Session.__exit__ closes the session.
with_exit(state) == "closed"

\* A dependency resolver calls get_session(): a generator object, no code of
\* its body run yet.
get_session(c) ==
    /\ gen[c] \in {"none", "finished"}
    /\ gen' = [gen EXCEPT ![c] = "created"]
    /\ sess' = [sess EXCEPT ![c] = "none"]
    /\ exit' = [exit EXCEPT ![c] = "none"]
    /\ UNCHANGED <<sessConn, conn, pinged, handout, handedStale, dbvars, runvars>>

\* next(generator): Session(engine) is built, the with block entered, and
\* the session yielded (lines 64-65).
GenNext(c) ==
    /\ gen[c] = "created"
    /\ gen' = [gen EXCEPT ![c] = "suspended"]
    /\ sess' = [sess EXCEPT ![c] = "open"]
    /\ UNCHANGED <<exit, sessConn, conn, pinged, handout, handedStale,
                   dbvars, runvars>>

\* The session's first statement takes a connection from the engine's pool
\* (line 56): a pooled one, pinged first only under pool_pre_ping, with a
\* stale one then replaced.
Checkout(c, k) ==
    /\ gen[c] = "suspended" /\ sess[c] = "open" /\ sessConn[c] = 0
    /\ k \in Pooled
    /\ sessConn' = [sessConn EXCEPT ![c] = k]
    /\ handout' = [handout EXCEPT ![c] =
                      IF conn[k] = "stale" THEN "pooled_stale" ELSE "pooled_fresh"]
    /\ pinged' = [pinged EXCEPT ![c] = pool_pre_ping]
    /\ conn' = [conn EXCEPT ![k] = IF pool_pre_ping THEN "fresh" ELSE @]
    /\ handedStale' = [handedStale EXCEPT ![c] = (conn'[k] = "stale")]
    /\ UNCHANGED <<gen, sess, exit, dbvars, runvars>>

\* The pool is empty: the engine opens a new connection for the session.
Connect(c, k) ==
    /\ gen[c] = "suspended" /\ sess[c] = "open" /\ sessConn[c] = 0
    /\ Pooled = {}
    /\ conn[k] = "absent"
    /\ conn' = [conn EXCEPT ![k] = "fresh"]
    /\ sessConn' = [sessConn EXCEPT ![c] = k]
    /\ handout' = [handout EXCEPT ![c] = "new"]
    /\ UNCHANGED <<gen, sess, exit, pinged, handedStale, dbvars, runvars>>

\* The server or the network drops a connection.
GoStale(k) ==
    /\ conn[k] = "fresh"
    /\ conn' = [conn EXCEPT ![k] = "stale"]
    /\ UNCHANGED <<gen, sess, exit, sessConn, pinged, handout, handedStale,
                   dbvars, runvars>>

\* The generator is left at its yield, or finalized before it started: the
\* with block is exited, and a closed session gives its connection back.
Leave(c, how) ==
    /\ gen' = [gen EXCEPT ![c] = "finished"]
    /\ exit' = [exit EXCEPT ![c] = how]
    /\ sess' = [sess EXCEPT ![c] = IF gen[c] = "suspended" THEN with_exit(@) ELSE @]
    /\ sessConn' = [sessConn EXCEPT ![c] = IF sess'[c] = "closed" THEN 0 ELSE @]
    /\ pinged' = [pinged EXCEPT ![c] = IF sess'[c] = "closed" THEN FALSE ELSE @]
    /\ handout' = [handout EXCEPT ![c] = IF sess'[c] = "closed" THEN "none" ELSE @]
    /\ handedStale' = [handedStale EXCEPT ![c] =
                          IF sess'[c] = "closed" THEN FALSE ELSE @]
    /\ UNCHANGED <<conn, dbvars, runvars>>

\* The unit of work returns: the generator is resumed and runs to its end.
GenResume(c) == gen[c] = "suspended" /\ Leave(c, "return")

\* The unit of work raises: the exception is thrown into the generator.
GenThrow(c) == gen[c] = "suspended" /\ Leave(c, "exception")

\* The caller is cancelled, or drops the generator: generator.close().
GenClose(c) == gen[c] \in {"created", "suspended"} /\ Leave(c, "cancel")

\* ------------------------------------------------------- specifications
RunsInit ==
    /\ op = [r \in Runners |-> "none"]
    /\ ip = [r \in Runners |-> 0]
    /\ result = [r \in Runners |-> FALSE]
    /\ checkfirst = [r \in Runners |-> FALSE]
    /\ err = [r \in Runners |-> "none"]
    /\ pre = [r \in Runners |-> Snapshot(typeExists, FALSE, {}, otherTable, {})]
    /\ log = <<>>

\* A database the revision has not been applied to: no appointments table;
\* a type named appointmentstatus may be there already.
DbInit ==
    /\ typeExists \in BOOLEAN
    /\ typeLabels \in (IF typeExists THEN ForeignLabelSets ELSE {{}})
    /\ typeCreator = 0
    /\ otherTable \in (IF typeExists THEN BOOLEAN ELSE {FALSE})
    /\ tableExists = FALSE
    /\ indexes = {}
    /\ rows = {}
    /\ nextId = 1
    /\ dml = "none"

SessionInit ==
    /\ gen = [c \in Callers |-> "none"]
    /\ sess = [c \in Callers |-> "none"]
    /\ exit = [c \in Callers |-> "none"]
    /\ sessConn = [c \in Callers |-> 0]
    /\ conn = [k \in Conns |-> "absent"]
    /\ pinged = [c \in Callers |-> FALSE]
    /\ handout = [c \in Callers |-> "none"]
    /\ handedStale = [c \in Callers |-> FALSE]

Init == DbInit /\ RunsInit /\ SessionInit

\* No migration is running.
Quiet == \A q \in Runners : ip[q] = 0

\* The application and other users of the database; they are not connected
\* while a migration runs.
Clients ==
    /\ Quiet
    /\ \/ \E aid \in AppointmentIds, st \in StatusInputs : Insert(aid, st)
       \/ \E id \in 1..MaxRows, aid \in AppointmentIds, st \in StatusInputs \ {Omitted} :
              Update(id, aid, st)
       \/ CreateOtherTable
       \/ DropOtherTable

\* One deployment at a time: a run starts only when none is running.
Next ==
    \/ \E o \in {"upgrade", "downgrade"} : Quiet /\ Start(1, o)
    \/ upgrade(1)
    \/ downgrade(1)
    \/ Clients

Spec == Init /\ [][Next]_vars

\* Two deployments at once: upgrade() runs start and interleave freely.
ConcurrentNext ==
    \/ \E r \in Runners : Start(r, "upgrade")
    \/ \E r \in Runners : upgrade(r)

ConcurrentSpec == Init /\ [][ConcurrentNext]_vars

SessionNext ==
    \/ \E c \in Callers : get_session(c)
    \/ \E c \in Callers : GenNext(c)
    \/ \E c \in Callers, k \in Conns : Checkout(c, k)
    \/ \E c \in Callers, k \in Conns : Connect(c, k)
    \/ \E k \in Conns : GoStale(k)
    \/ \E c \in Callers : GenResume(c)
    \/ \E c \in Callers : GenThrow(c)
    \/ \E c \in Callers : GenClose(c)

\* A database without the type, and the application's callers.
SessionStart == Init /\ ~typeExists

SessionSpec == SessionStart /\ [][SessionNext]_vars

\* Every unit of work ends: it returns, raises or is cancelled.
SessionFairSpec ==
    /\ SessionSpec
    /\ \A c \in Callers : WF_vars(GenResume(c) \/ GenThrow(c) \/ GenClose(c))

\* --------------------------------------------------------------- claims
\* Two runs in succession: the second started from where the first ended.
Successive ==
    /\ Len(log) = 2
    /\ log[2].pre.type = log[1].post.type
    /\ log[2].pre.table = log[1].post.table
    /\ log[2].pre.ix = log[1].post.ix
    /\ log[2].pre.other = log[1].post.other

\* C1: in single runs, upgrade() reaches CREATE TYPE only when no type named
\* appointmentstatus exists, so no run ever fails at its enum-creation
\* statement or with a duplicate-type error.
C1_EnumCreationIdempotent ==
    /\ \A r \in Runners : err[r] # "DuplicateObject"
    /\ \A i \in DOMAIN log :
          /\ log[i].outcome # "DuplicateObject"
          /\ log[i].at \notin {"enum_checkfirst", "enum_create_type"}

\* C1 witness: upgrade() applied twice in succession; the second run passed
\* the enum step with the type in place and stopped at CREATE TABLE.
C1_Witness ==
    /\ Successive
    /\ log[1].op = "upgrade" /\ log[1].outcome = "ok" /\ ~log[1].pre.type
    /\ log[2].op = "upgrade" /\ log[2].at = "create_table"
    /\ result[1]

\* A downgrade() run on a migrated database.
OnMigrated(e) ==
    e.op = "downgrade" /\ e.pre.table /\ e.pre.ix = AllIndexes /\ e.pre.type

NoDuplicateAppointmentId ==
    \A r1, r2 \in rows : r1.appointment_id = r2.appointment_id => r1 = r2

\* C3: no two rows of appointments ever have the same appointment_id, and a
\* statement that ends in a uniqueness violation leaves the rows as they were.
C3_AppointmentIdUnique ==
    /\ []NoDuplicateAppointmentId
    /\ [][dml' # dml /\ dml' = "unique_violation" => rows' = rows]_vars

\* C3 witness: after a successful upgrade, an insert of an appointment_id
\* that a stored row has was rejected.
C3_Witness ==
    /\ \E i \in DOMAIN log : log[i].op = "upgrade" /\ log[i].outcome = "ok"
    /\ tableExists /\ indexes = AllIndexes
    /\ rows # {}
    /\ dml = "unique_violation"

\* C4 (as claimed): whenever upgrade() succeeded, created the type or found
\* one, every stored row has one of the four statuses.
C4_StatusAlwaysOneOfFour ==
    tableExists => \A row \in rows : row.status \in AppointmentStatus

\* C5: a finished downgrade() leaves no appointments table, no index and no
\* row, and the table a following upgrade() creates is empty.
C5_NoRowSurvivesCycle ==
    /\ ~tableExists => rows = {}
    /\ \A i \in DOMAIN log :
          /\ (log[i].op = "downgrade" /\ log[i].outcome = "ok") =>
                 ~log[i].post.table /\ log[i].post.ix = {} /\ ~log[i].post.hasRows
          /\ (log[i].op = "upgrade" /\ log[i].outcome = "ok") =>
                 log[i].post.table /\ ~log[i].post.hasRows

\* C5 witness: rows were stored, downgrade() ran, upgrade() ran again.
C5_Witness ==
    /\ Successive
    /\ log[1].op = "downgrade" /\ log[1].outcome = "ok" /\ log[1].pre.hasRows
    /\ log[2].op = "upgrade" /\ log[2].outcome = "ok"
    /\ tableExists /\ rows = {}

\* upgrade() succeeded and downgrade() then ran, nothing in between.
UpgradeThenDowngrade ==
    /\ Successive
    /\ log[1].op = "upgrade" /\ log[1].outcome = "ok"
    /\ log[2].op = "downgrade" /\ log[2].outcome = "ok"

\* C7 (as claimed): upgrade() then downgrade() leaves table, indexes and type
\* existing exactly as before the upgrade.
C7_DowngradeReversesExactly ==
    UpgradeThenDowngrade =>
        /\ log[2].post.table = log[1].pre.table
        /\ log[2].post.ix = log[1].pre.ix
        /\ log[2].post.type = log[1].pre.type

\* C7 (amended): upgrade() then downgrade() restores the table and the
\* indexes; the type exists afterwards exactly when another table uses it,
\* so it is restored unless it existed before and nothing else uses it.
C7_DowngradeReversesUnlessOwnedType ==
    UpgradeThenDowngrade =>
        /\ log[2].post.table = log[1].pre.table
        /\ log[2].post.ix = log[1].pre.ix
        /\ log[2].post.type = log[2].post.other
        /\ (log[2].post.type = log[1].pre.type) <=>
               ~(log[1].pre.type /\ ~log[2].post.other)

\* C7 witness: the cycle run on a database that had no such type.
C7_Witness ==
    /\ UpgradeThenDowngrade
    /\ ~log[1].pre.type /\ ~log[2].post.type
    /\ log[1].post.table /\ ~log[2].post.table

\* Indexes only on an existing table, the table only with its type.
DependencyOrder ==
    /\ indexes # {} => tableExists
    /\ tableExists => typeExists

\* C10: in every state, also inside and after aborted runs, an index exists
\* only with the table and the table only with the type; the type is
\* created before the table and the table before any index, the table is
\* dropped after all four indexes and the type after the table.
C10_DependencyOrderKept ==
    /\ []DependencyOrder
    /\ [][/\ (~tableExists /\ tableExists') => typeExists /\ indexes = {}
          /\ (indexes' # indexes /\ indexes' # {}) => tableExists /\ tableExists'
          /\ (tableExists /\ ~tableExists') => indexes = {}
          /\ (typeExists /\ ~typeExists') => ~tableExists /\ indexes = {}]_vars

\* C10 witness: a downgrade() half way through its indexes, after a run that
\* was aborted.
C10_Witness ==
    /\ \E i \in DOMAIN log : log[i].outcome # "ok"
    /\ op[1] = "downgrade" /\ ip[1] = 3
    /\ tableExists /\ Cardinality(indexes) = 2

\* C9: a run ends in a duplicate-type error only through the race: both of
\* its own lookups found no type, it started on a database without the type,
\* and the other run's CREATE TYPE came in between; no other statement of
\* either run is reached through a lookup.
C9_EnumCreationRace ==
    /\ \A r \in Runners :
          err[r] = "DuplicateObject" =>
              /\ ~result[r] /\ ~checkfirst[r]
              /\ ~pre[r].type
              /\ typeCreator \in Runners \ {r}
    /\ \A i \in DOMAIN log :
          log[i].outcome # "ok" =>
              \/ log[i].at = "enum_create_type" /\ log[i].outcome = "DuplicateObject"
              \/ log[i].at \in {"create_table", "create_index_1", "create_index_2",
                                "create_index_3", "create_index_4"}

\* C9 witness: both runs' lookups found nothing, one CREATE TYPE went
\* through and the other run was aborted by the duplicate.
C9_Witness ==
    \E r, q \in Runners :
        /\ r # q
        /\ err[r] = "DuplicateObject"
        /\ typeCreator = q
        /\ ~result[r] /\ ~result[q] /\ ~checkfirst[r] /\ ~checkfirst[q]
        /\ op[q] = "upgrade"

\* C6: a generator that has finished leaves no open session, and every open
\* session is closed in the end, whether the unit of work returned, raised
\* or was cancelled.
C6_SessionAlwaysClosed ==
    /\ [](\A c \in Callers : gen[c] = "finished" => sess[c] # "open")
    /\ \A c \in Callers : (sess[c] = "open") ~> (sess[c] = "closed")

\* C6 witness: one session closed by an exception, another by cancellation.
C6_Witness ==
    \E c, d \in Callers :
        /\ exit[c] = "exception" /\ sess[c] = "closed" /\ gen[c] = "finished"
        /\ exit[d] = "cancel" /\ sess[d] = "closed" /\ gen[d] = "finished"

\* C8 (as claimed): a pooled connection is health-checked before it is
\* handed to a session, and never handed over stale.
C8_PoolPrePing ==
    \A c \in Callers :
        handout[c] \in {"pooled_fresh", "pooled_stale"} =>
            pinged[c] /\ ~handedStale[c]

\* C8 (amended): the engine of the active configuration hands a pooled
\* connection to a session without a health check and as it was in the pool,
\* a stale one still stale.
C8_NoPrePingInActiveConfiguration ==
    \A c \in Callers :
        handout[c] \in {"pooled_fresh", "pooled_stale"} =>
            /\ ~pinged[c]
            /\ handedStale[c] <=> handout[c] = "pooled_stale"

\* C8 witness: a session was handed a stale pooled connection.
C8_Witness ==
    \E c \in Callers :
        /\ sessConn[c] # 0
        /\ handout[c] = "pooled_stale"
        /\ handedStale[c]

=============================================================================
